---- MODULE Spec2Model ----
(***************************************************************************)
(* KeyedMutex (src/src/core/KeyedMutex.ts): a registry that maps a key to  *)
(* a reference-counted SharedMutex.  The SharedMutex itself comes from the *)
(* package async-shared-mutex, whose code is not part of the sources; it   *)
(* is modelled from the PerKeyLock description of the specification        *)
(* (section 4.1): holder state Idle / SharedHeld(n) / ExclusiveHeld and a  *)
(* FIFO wait queue.                                                        *)
(*                                                                         *)
(* Scheduling is JavaScript's: every synchronous call is one atomic step.  *)
(* An async lock()/lockShared() is two steps: the call (track and the      *)
(* request to the mutex) and, after the mutex has granted the request, the *)
(* resumption after `await` that wraps the handle (trackLock).             *)
(***************************************************************************)
EXTENDS Integers, Sequences, FiniteSets

\* ---------------------------------------------------------------- bounds
MaxReq == 4           \* number of requests (calls of lock/tryLock/...) made
NumKeys == 2          \* number of distinct keys
MaxWait == 3          \* number of requests made where progress is checked
MaxTask == 3          \* number of requests made to an AsyncKeyedMutex

Req == 1..MaxReq
Keys == 1..NumKeys
NoEntry == 0          \* Map.get(key) === undefined
NoKey == 0

VARIABLES
  nextReq,    \* the next request made is request number nextReq (call order)
  key,        \* key[r]: the key argument of request r
  kind,       \* kind[r]: "X" exclusive, "S" shared, "none" not made yet
  st,         \* st[r]: "new", "pending", "granted", "live", "unlocked", "failed"
  ent,        \* ent[r]: the entry object (mutexRef) captured by r's closures
  unlocked,   \* unlocked[r]: the flag captured by r's handle (trackLock)
  inert,      \* inert[r]: the underlying LockHandle of r has been released
  again,      \* the handle on which unlock() was last called once more
              \* after its first unlock() (0: no such call yet)
  mutexRefs,  \* the Map: key -> entry object, or NoEntry
  refCount,   \* refCount[e]: mutexRef[1] of entry object e
  mutex,      \* mutex[e]: the SharedMutex mutexRef[0] of entry object e
  variant,    \* the class in use: "keyed" KeyedMutex with handles, "own"
              \* AsyncKeyedMutex with its own mutexRefs, "wrap" AsyncKeyedMutex
              \* over a KeyedMutex
  outcome,    \* outcome[r]: how r's task ended: "none", "value", "error"
  result      \* result[r]: what r's caller received: "none", "value", "error"

\* The state of the tasks of an AsyncKeyedMutex.  There st[r] is also
\* "running" (the task body runs), "ended" (the body has returned or
\* thrown), "subbed" (subRef() done, lock still held), "done" (released).
avars == <<variant, outcome, result>>

vars == <<nextReq, key, kind, st, ent, unlocked, inert, again,
          mutexRefs, refCount, mutex, variant, outcome, result>>

\* Keys are opaque and only compared for equality: a key that no request has
\* used yet is named by the least number not yet in use.
KeysInUse == {key[r] : r \in Req} \ {NoKey}
CallKeys == {k \in Keys : \A j \in 1..(k - 1) : j \in KeysInUse}

\* An entry object is named by the request whose track() call created it.
Reg == [refs |-> mutexRefs, cnt |-> refCount, mtx |-> mutex]

\* ------------------------------------------------ SharedMutex (PerKeyLock)
IdleMutex == [excl |-> FALSE, shared |-> 0, queue |-> <<>>]

IsIdle(m) == ~m.excl /\ m.shared = 0

ExclQueued(m) == \E i \in 1..Len(m.queue) : m.queue[i].kind = "X"

\* mutex.lock(): granted at once when Idle with nobody queued, else queued.
acquireExclusive(m, r) ==
  IF IsIdle(m) /\ m.queue = <<>>
    THEN [m |-> [m EXCEPT !.excl = TRUE], ok |-> TRUE]
    ELSE [m |-> [m EXCEPT !.queue = Append(@, [req |-> r, kind |-> "X"])],
          ok |-> FALSE]

\* mutex.tryLock(): never queues.
tryAcquireExclusive(m) ==
  IF IsIdle(m) /\ m.queue = <<>>
    THEN [m |-> [m EXCEPT !.excl = TRUE], ok |-> TRUE]
    ELSE [m |-> m, ok |-> FALSE]

\* mutex.lockShared(): joins the holders unless an exclusive holds or is queued.
acquireShared(m, r) ==
  IF ~m.excl /\ ~ExclQueued(m)
    THEN [m |-> [m EXCEPT !.shared = @ + 1], ok |-> TRUE]
    ELSE [m |-> [m EXCEPT !.queue = Append(@, [req |-> r, kind |-> "S"])],
          ok |-> FALSE]

\* mutex.tryLockShared(): never queues.
tryAcquireShared(m) ==
  IF ~m.excl /\ ~ExclQueued(m)
    THEN [m |-> [m EXCEPT !.shared = @ + 1], ok |-> TRUE]
    ELSE [m |-> m, ok |-> FALSE]

\* Length of the run of shared requests at the head of the queue.
SharedPrefix(q) ==
  CHOOSE n \in 0..Len(q) :
    /\ \A i \in 1..n : q[i].kind = "S"
    /\ n = Len(q) \/ q[n + 1].kind = "X"

\* Promotion from Idle: the exclusive at the head alone, or the whole batch
\* of shared requests queued ahead of the next exclusive.
promote(m) ==
  IF m.queue = <<>>
    THEN [m |-> m, woken |-> {}]
    ELSE IF Head(m.queue).kind = "X"
      THEN [m |-> [excl |-> TRUE, shared |-> 0, queue |-> Tail(m.queue)],
            woken |-> {Head(m.queue).req}]
      ELSE LET n == SharedPrefix(m.queue)
           IN [m |-> [excl |-> FALSE, shared |-> n,
                      queue |-> SubSeq(m.queue, n + 1, Len(m.queue))],
               woken |-> {m.queue[i].req : i \in 1..n}]

\* release of a handle of kind k ("X" or "S") on mutex m.
release(m, k) ==
  LET m1 == IF k = "X" THEN [m EXCEPT !.excl = FALSE]
                       ELSE [m EXCEPT !.shared = @ - 1]
  IN IF IsIdle(m1) THEN promote(m1) ELSE [m |-> m1, woken |-> {}]

\* ------------------------------------------------------------- KeyedMutex
\* Mutant of track: the `mutexRef === undefined` test is dropped, every call
\* installs a new entry with a new SharedMutex.
trackAlwaysNew(reg, k, r) ==
  [refs |-> [reg.refs EXCEPT ![k] = r],
   cnt |-> [reg.cnt EXCEPT ![r] = 1],
   mtx |-> [reg.mtx EXCEPT ![r] = IdleMutex],
   e |-> r]

\* Mutant of track: all keys collide on one map slot.
trackKeyCollision(reg, k, r) ==
  LET fresh == reg.refs[1] = NoEntry
      e == IF fresh THEN r ELSE reg.refs[1]
      c0 == IF fresh THEN 0 ELSE reg.cnt[e]
  IN [refs |-> [reg.refs EXCEPT ![1] = e],
      cnt |-> [reg.cnt EXCEPT ![e] = c0 + 1],
      mtx |-> IF fresh THEN [reg.mtx EXCEPT ![e] = IdleMutex] ELSE reg.mtx,
      e |-> e]

\* Mutant of track: a new entry is built but `mutexRefs.set` is missing.
trackNoStore(reg, k, r) ==
  LET fresh == reg.refs[k] = NoEntry
      e == IF fresh THEN r ELSE reg.refs[k]
      c0 == IF fresh THEN 0 ELSE reg.cnt[e]
  IN [refs |-> reg.refs,
      cnt |-> [reg.cnt EXCEPT ![e] = c0 + 1],
      mtx |-> IF fresh THEN [reg.mtx EXCEPT ![e] = IdleMutex] ELSE reg.mtx,
      e |-> e]

\* track(key), called by request r: get or create the entry, count r in.
track(reg, k, r) ==
  LET fresh == reg.refs[k] = NoEntry
      e == IF fresh THEN r ELSE reg.refs[k]
      c0 == IF fresh THEN 0 ELSE reg.cnt[e]
  IN [refs |-> [reg.refs EXCEPT ![k] = e],
      cnt |-> [reg.cnt EXCEPT ![e] = c0 + 1],
      mtx |-> IF fresh THEN [reg.mtx EXCEPT ![e] = IdleMutex] ELSE reg.mtx,
      e |-> e]

\* Mutant of subRef: the entry is deleted whatever its count.
subRefAlwaysDelete(reg, k, e) ==
  [reg EXCEPT !.refs[k] = NoEntry]

\* Mutant of subRef: the entry is deleted one reference too early.
subRefOffByOne(reg, k, e) ==
  IF reg.cnt[e] <= 2
    THEN [reg EXCEPT !.refs[k] = NoEntry]
    ELSE [reg EXCEPT !.cnt[e] = reg.cnt[e] - 1]

\* Mutant of subRef: the count is decremented, the entry is never deleted.
subRefNoDelete(reg, k, e) ==
  [reg EXCEPT !.cnt[e] = reg.cnt[e] - 1]

\* subRef(), the closure of track(key) over entry object e.
subRef(reg, k, e) ==
  IF reg.cnt[e] = 1
    THEN [reg EXCEPT !.refs[k] = NoEntry]
    ELSE [reg EXCEPT !.cnt[e] = reg.cnt[e] - 1]

\* The registry after request r has been tracked and has asked its mutex;
\* a is the mutex's answer.
Asked(t, a) == [t EXCEPT !.mtx[t.e] = a.m]

\* Bookkeeping common to the four calls: request r is made on key k.
Made(r, k, kd, status, e) ==
  /\ nextReq' = r + 1
  /\ key' = [key EXCEPT ![r] = k]
  /\ kind' = [kind EXCEPT ![r] = kd]
  /\ st' = [st EXCEPT ![r] = status]
  /\ ent' = [ent EXCEPT ![r] = e]
  /\ UNCHANGED <<unlocked, inert, again, avars>>

Store(reg) ==
  /\ mutexRefs' = reg.refs
  /\ refCount' = reg.cnt
  /\ mutex' = reg.mtx

\* lock(key) up to its await.
lock(k) ==
  /\ nextReq <= MaxReq
  /\ LET r == nextReq
         t == track(Reg, k, r)
         a == acquireExclusive(t.mtx[t.e], r)
     IN /\ Store(Asked(t, a))
        /\ Made(r, k, "X", IF a.ok THEN "granted" ELSE "pending", t.e)

\* Mutant of tryLock: subCount() is not called when the try fails.
tryLockNoSub(k) ==
  /\ nextReq <= MaxReq
  /\ LET r == nextReq
         t == track(Reg, k, r)
         a == tryAcquireExclusive(t.mtx[t.e])
     IN /\ Store(Asked(t, a))
        /\ Made(r, k, "X", IF a.ok THEN "live" ELSE "failed", t.e)

\* Mutant of tryLock: it calls mutex.tryLockShared() instead of mutex.tryLock().
tryLockAsShared(k) ==
  /\ nextReq <= MaxReq
  /\ LET r == nextReq
         t == track(Reg, k, r)
         a == tryAcquireShared(t.mtx[t.e])
     IN IF a.ok
          THEN /\ Store(Asked(t, a))
               /\ Made(r, k, "X", "live", t.e)
          ELSE /\ Store(subRef(Asked(t, a), k, t.e))
               /\ Made(r, k, "X", "failed", t.e)

\* tryLock(key).
tryLock(k) ==
  /\ nextReq <= MaxReq
  /\ LET r == nextReq
         t == track(Reg, k, r)
         a == tryAcquireExclusive(t.mtx[t.e])
     IN IF a.ok
          THEN /\ Store(Asked(t, a))
               /\ Made(r, k, "X", "live", t.e)
          ELSE /\ Store(subRef(Asked(t, a), k, t.e))
               /\ Made(r, k, "X", "failed", t.e)

\* Mutant of lockShared: it calls mutex.lock() instead of mutex.lockShared().
lockSharedAsLock(k) ==
  /\ nextReq <= MaxReq
  /\ LET r == nextReq
         t == track(Reg, k, r)
         a == acquireExclusive(t.mtx[t.e], r)
     IN /\ Store(Asked(t, a))
        /\ Made(r, k, "S", IF a.ok THEN "granted" ELSE "pending", t.e)

\* lockShared(key) up to its await.
lockShared(k) ==
  /\ nextReq <= MaxReq
  /\ LET r == nextReq
         t == track(Reg, k, r)
         a == acquireShared(t.mtx[t.e], r)
     IN /\ Store(Asked(t, a))
        /\ Made(r, k, "S", IF a.ok THEN "granted" ELSE "pending", t.e)

\* Mutant of tryLockShared: subCount() is not called when the try fails.
tryLockSharedNoSub(k) ==
  /\ nextReq <= MaxReq
  /\ LET r == nextReq
         t == track(Reg, k, r)
         a == tryAcquireShared(t.mtx[t.e])
     IN /\ Store(Asked(t, a))
        /\ Made(r, k, "S", IF a.ok THEN "live" ELSE "failed", t.e)

\* tryLockShared(key).
tryLockShared(k) ==
  /\ nextReq <= MaxReq
  /\ LET r == nextReq
         t == track(Reg, k, r)
         a == tryAcquireShared(t.mtx[t.e])
     IN IF a.ok
          THEN /\ Store(Asked(t, a))
               /\ Made(r, k, "S", "live", t.e)
          ELSE /\ Store(subRef(Asked(t, a), k, t.e))
               /\ Made(r, k, "S", "failed", t.e)

\* Mutant of the resumption: the `await` is missing, the handle is built
\* and handed out while the request is still queued.
trackLockNoAwait(r) ==
  /\ st[r] \in {"granted", "pending"}
  /\ st' = [st EXCEPT ![r] = "live"]
  /\ UNCHANGED <<nextReq, key, kind, ent, unlocked, inert, again,
                 mutexRefs, refCount, mutex, avars>>

\* The resumption of lock()/lockShared() after the await: trackLock wraps
\* the granted lock in a handle, which the caller receives.
trackLock(r) ==
  /\ st[r] = "granted"
  /\ st' = [st EXCEPT ![r] = "live"]
  /\ UNCHANGED <<nextReq, key, kind, ent, unlocked, inert, again,
                 mutexRefs, refCount, mutex, avars>>

\* Mutant of the callback: subCount() is called, lock.unlock() is not.
doUnlockNoRelease(r) ==
  /\ unlocked' = [unlocked EXCEPT ![r] = TRUE]
  /\ UNCHANGED inert
  /\ Store(subRef(Reg, key[r], ent[r]))
  /\ st' = [st EXCEPT ![r] = "unlocked"]

\* Mutant of the callback: lock.unlock() is called, subCount() is not.
doUnlockNoSub(r) ==
  LET rel == IF inert[r] THEN [m |-> mutex[ent[r]], woken |-> {}]
                         ELSE release(mutex[ent[r]], kind[r])
  IN /\ unlocked' = [unlocked EXCEPT ![r] = TRUE]
     /\ inert' = [inert EXCEPT ![r] = TRUE]
     /\ Store([Reg EXCEPT !.mtx[ent[r]] = rel.m])
     /\ st' = [q \in Req |-> IF q = r THEN "unlocked"
                             ELSE IF q \in rel.woken THEN "granted"
                             ELSE st[q]]

\* The body of the handle's callback past its guard: subCount(), lock.unlock().
doUnlock(r) ==
  LET reg1 == subRef(Reg, key[r], ent[r])
      rel == IF inert[r] THEN [m |-> reg1.mtx[ent[r]], woken |-> {}]
                         ELSE release(reg1.mtx[ent[r]], kind[r])
  IN /\ unlocked' = [unlocked EXCEPT ![r] = TRUE]
     /\ inert' = [inert EXCEPT ![r] = TRUE]
     /\ Store([reg1 EXCEPT !.mtx[ent[r]] = rel.m])
     /\ st' = [q \in Req |-> IF q = r THEN "unlocked"
                             ELSE IF q \in rel.woken THEN "granted"
                             ELSE st[q]]

\* Mutant of the callback: the `if (unlocked) return` guard is missing.
unlockNoGuard(r) ==
  /\ st[r] \in {"live", "unlocked"}
  /\ again' = IF st[r] = "unlocked" THEN r ELSE again
  /\ doUnlock(r)
  /\ UNCHANGED <<nextReq, key, kind, ent, avars>>

\* handle.unlock(), the callback built by trackLock.
unlock(r) ==
  /\ st[r] \in {"live", "unlocked"}
  /\ again' = IF st[r] = "unlocked" THEN r ELSE again
  /\ IF unlocked[r]
       THEN UNCHANGED <<st, unlocked, inert, mutexRefs, refCount, mutex>>
       ELSE doUnlock(r)
  /\ UNCHANGED <<nextReq, key, kind, ent, avars>>

Init ==
  /\ nextReq = 1
  /\ key = [r \in Req |-> NoKey]
  /\ kind = [r \in Req |-> "none"]
  /\ st = [r \in Req |-> "new"]
  /\ ent = [r \in Req |-> NoEntry]
  /\ unlocked = [r \in Req |-> FALSE]
  /\ inert = [r \in Req |-> FALSE]
  /\ again = 0
  /\ mutexRefs = [k \in Keys |-> NoEntry]
  /\ refCount = [e \in Req |-> 0]
  /\ mutex = [e \in Req |-> IdleMutex]
  /\ variant = "keyed"
  /\ outcome = [r \in Req |-> "none"]
  /\ result = [r \in Req |-> "none"]

Next ==
  \/ \E k \in CallKeys : lock(k)
  \/ \E k \in CallKeys : tryLock(k)
  \/ \E k \in CallKeys : lockShared(k)
  \/ \E k \in CallKeys : tryLockShared(k)
  \/ \E r \in Req : trackLock(r)
  \/ \E r \in Req : unlock(r)

Spec == Init /\ [][Next]_vars

TypeOK ==
  /\ nextReq \in 1..(MaxReq + 1)
  /\ key \in [Req -> Keys \cup {NoKey}]
  /\ kind \in [Req -> {"none", "X", "S"}]
  /\ st \in [Req -> {"new", "pending", "granted", "live", "unlocked", "failed",
                     "running", "ended", "subbed", "done"}]
  /\ variant \in {"keyed", "own", "wrap"}
  /\ outcome \in [Req -> {"none", "value", "error"}]
  /\ result \in [Req -> {"none", "value", "error"}]
  /\ ent \in [Req -> Req \cup {NoEntry}]
  /\ unlocked \in [Req -> BOOLEAN]
  /\ inert \in [Req -> BOOLEAN]
  /\ again \in Req \cup {0}
  /\ mutexRefs \in [Keys -> Req \cup {NoEntry}]
  /\ refCount \in [Req -> Nat]
  /\ \A e \in Req : /\ mutex[e].excl \in BOOLEAN
                    /\ mutex[e].shared \in Nat
                    /\ Len(mutex[e].queue) <= MaxReq

\* =================================================================== claims
Holding(r) == st[r] \in {"granted", "live"}      \* granted, not yet unlocked
Active(r) == st[r] \in {"pending", "granted", "live"}
Granted(r) == st[r] \in {"granted", "live", "unlocked"}
SameKey(a, b) == key[a] = key[b] /\ key[a] # NoKey
OnKey(k) == {r \in Req : key[r] = k}
ExclActive(k) == \E r \in OnKey(k) : kind[r] = "X" /\ Active(r)
AnyActive(k) == \E r \in OnKey(k) : Active(r)
\* The step makes a new request on key k of kind kd.
Calls(k, kd) ==
  /\ nextReq' = nextReq + 1
  /\ key'[nextReq] = k
  /\ kind'[nextReq] = kd

\* C1: mutual exclusion per key.  While an exclusive handle for a key is
\* granted and not yet unlocked, no other handle for that key, shared or
\* exclusive, is granted and not yet unlocked.
MutualExclusion ==
  \A a, b \in Req :
    (a # b /\ SameKey(a, b) /\ kind[a] = "X" /\ Holding(a)) => ~Holding(b)

\* An exclusive handle is live while a shared and an exclusive request for
\* the same key wait behind it.
ExclusiveHeldWithWaiters ==
  \E a, b, c \in Req :
    /\ SameKey(a, b) /\ SameKey(a, c)
    /\ kind[a] = "X" /\ st[a] = "live"
    /\ kind[b] = "S" /\ st[b] = "pending"
    /\ kind[c] = "X" /\ st[c] = "pending"

\* C2: a writer is not overtaken by late readers.  A shared request made
\* after an exclusive request for the same key is granted only once that
\* exclusive request has been granted and unlocked, also when the exclusive
\* request was itself still waiting for earlier shared holders.
NoLateReaderOvertakes ==
  \A e, s \in Req :
    (/\ e < s /\ SameKey(e, s)
     /\ kind[e] = "X" /\ st[e] # "failed"
     /\ kind[s] = "S" /\ Granted(s)) => st[e] = "unlocked"

\* S1 shared and live, E exclusive queued behind it, S2 shared queued behind E.
ReaderQueuedBehindWaitingWriter ==
  \E s1, e, s2 \in Req :
    /\ kind[s1] = "S" /\ st[s1] = "live"
    /\ ent[e] = ent[s1] /\ ent[s2] = ent[s1]
    /\ mutex[ent[s1]].queue =
         <<[req |-> e, kind |-> "X"], [req |-> s2, kind |-> "S"]>>
    /\ st[e] = "pending" /\ st[s2] = "pending"

\* C3: an exclusive request made while shared handles for the key are live
\* is granted only when all of them have been unlocked, and it does not stay
\* pending once nobody holds the lock: a pending exclusive request always
\* has an earlier request of its key that holds the lock.
ExclusiveWaitsForAllShared ==
  /\ \A s, e \in Req :
       (/\ s < e /\ SameKey(s, e)
        /\ kind[s] = "S" /\ st[s] # "failed"
        /\ kind[e] = "X" /\ Granted(e)) => st[s] = "unlocked"
  /\ \A e \in Req :
       (kind[e] = "X" /\ st[e] = "pending") =>
         \E r \in Req : r < e /\ SameKey(r, e) /\ Holding(r)

\* S1 and S2 were live when E was requested; S1 has been unlocked, S2 is
\* still live and E is still pending.
ExclusiveStillPendingAfterOneShared ==
  \E s1, s2, e \in Req :
    /\ s1 # s2 /\ s1 < e /\ s2 < e
    /\ SameKey(s1, e) /\ SameKey(s2, e)
    /\ OnKey(key[e]) = {s1, s2, e}
    /\ ent[s1] = ent[e] /\ ent[s2] = ent[e]
    /\ kind[s1] = "S" /\ st[s1] = "unlocked"
    /\ kind[s2] = "S" /\ st[s2] = "live"
    /\ kind[e] = "X" /\ st[e] = "pending"

\* C4: exclusive requests on one key are served in call order.  Of two
\* exclusive requests A before B, B is granted only after A has been granted
\* and unlocked.
ExclusiveFifo ==
  \A a, b \in Req :
    (/\ a < b /\ SameKey(a, b)
     /\ kind[a] = "X" /\ st[a] # "failed"
     /\ kind[b] = "X" /\ Granted(b)) => st[a] = "unlocked"

\* Three exclusive requests on one lock instance and nothing else on the
\* key: the first is unlocked, the second holds, the third still waits.
SecondExclusiveServedInOrder ==
  \E a, b, c \in Req :
    /\ a < b /\ b < c
    /\ OnKey(key[a]) = {a, b, c} /\ key[a] # NoKey
    /\ ent[b] = ent[a] /\ ent[c] = ent[a]
    /\ kind[a] = "X" /\ kind[b] = "X" /\ kind[c] = "X"
    /\ st[a] = "unlocked" /\ Holding(b) /\ st[c] = "pending"

\* C5: shared requests batch.  A lockShared or tryLockShared made while the
\* key has no live exclusive handle and no pending exclusive request is
\* granted in the call itself, without waiting for any release.
SharedBatch ==
  [][\A k \in Keys :
       (Calls(k, "S") /\ ~ExclActive(k)) =>
         st'[nextReq] \in {"granted", "live"}]_vars

\* Three shared handles of one key are held at the same time.
ThreeSharedTogether ==
  \E k \in Keys :
    Cardinality({r \in OnKey(k) : kind[r] = "S" /\ Holding(r)}) >= 3

\* What the registry and the requests hold about key k.
KeyView(k) ==
  [ref |-> mutexRefs[k],
   cnt |-> IF mutexRefs[k] = NoEntry THEN 0 ELSE refCount[mutexRefs[k]],
   mtx |-> IF mutexRefs[k] = NoEntry THEN IdleMutex ELSE mutex[mutexRefs[k]],
   sts |-> [r \in Req |-> IF key[r] = k THEN st[r] ELSE "other"]]

\* C6: key independence.  Every step touches one key only; the outcome of a
\* request on a key is decided by that key's own holders and waiters (an
\* exclusive request on a key without holder or waiter succeeds at once, a
\* shared one succeeds at once unless an exclusive of that key is live or
\* pending); and a pending request is granted by an unlock on its own key.
KeyIndependence ==
  [][/\ \E k \in Keys : \A k2 \in Keys \ {k} : KeyView(k2)' = KeyView(k2)
     /\ \A k \in Keys :
          /\ Calls(k, "X") =>
               (st'[nextReq] \in {"granted", "live"} <=> ~AnyActive(k))
          /\ Calls(k, "S") =>
               (st'[nextReq] \in {"granted", "live"} <=> ~ExclActive(k))
     /\ \A r \in Req :
          (st[r] = "pending" /\ st'[r] # "pending") =>
            \E q \in Req : /\ SameKey(q, r)
                           /\ st[q] = "live" /\ st'[q] = "unlocked"]_vars

\* One key is exclusively held with a request queued, and a later exclusive
\* request on another key holds its lock.
OtherKeyAcquiredMeanwhile ==
  \E a, b, c \in Req :
    /\ SameKey(a, b) /\ kind[a] = "X" /\ Holding(a) /\ st[b] = "pending"
    /\ b < c /\ key[c] # NoKey /\ key[c] # key[a]
    /\ kind[c] = "X" /\ st[c] = "live"

\* C7: a tryLock or tryLockShared that returns null leaves the registry's
\* key set, every refCount, every lock's holder state and wait queue, and
\* every other request and handle as they were before the call.
FailedTryNoEffect ==
  [][(nextReq' = nextReq + 1 /\ st'[nextReq] = "failed") =>
       /\ UNCHANGED <<mutexRefs, refCount, mutex, unlocked, inert>>
       /\ \A r \in Req \ {nextReq} : st'[r] = st[r] /\ ent'[r] = ent[r]]_vars

\* An exclusive try and a shared try have both failed on a key that is
\* still exclusively held.
BothTriesFailed ==
  \E h, a, b \in Req :
    /\ SameKey(h, a) /\ SameKey(h, b) /\ h < a /\ h < b
    /\ kind[h] = "X" /\ st[h] = "live"
    /\ kind[a] = "X" /\ st[a] = "failed"
    /\ kind[b] = "S" /\ st[b] = "failed"

\* C8: tryLockShared returns a handle only when the key has no live
\* exclusive handle and no pending exclusive request; in every other state
\* it returns null.
TryLockSharedOnlyWhenNoExclusive ==
  [][\A k \in Keys :
       (Calls(k, "S") /\ st'[nextReq] \in {"live", "failed"} /\ ExclActive(k))
         => st'[nextReq] = "failed"]_vars

\* A shared try has failed on a key whose lock is held shared, with an
\* exclusive request waiting: the queued exclusive alone refused it.
SharedTryRefusedByQueuedExclusive ==
  \E s1, e, t \in Req :
    /\ s1 < e /\ e < t
    /\ OnKey(key[t]) = {s1, e, t} /\ key[t] # NoKey
    /\ kind[s1] = "S" /\ st[s1] = "live"
    /\ kind[e] = "X" /\ st[e] = "pending"
    /\ kind[t] = "S" /\ st[t] = "failed"

\* C9: tryLock returns a handle only when the key has no live handle of any
\* kind and no waiting request; in every other state it returns null, also
\* between a release and the delivery of the handle of the request that the
\* release has granted.
TryLockOnlyWhenFree ==
  [][\A k \in Keys :
       (Calls(k, "X") /\ st'[nextReq] \in {"live", "failed"} /\ AnyActive(k))
         => st'[nextReq] = "failed"]_vars

\* An exclusive try has failed on a key whose previous holder has unlocked
\* and whose queued request has been granted but has not received its handle.
TryRefusedBeforeDelivery ==
  \E a, g, t \in Req :
    /\ a < g /\ g < t
    /\ OnKey(key[t]) = {a, g, t} /\ key[t] # NoKey
    /\ ent[g] = ent[a]
    /\ st[a] = "unlocked" /\ st[g] = "granted"
    /\ kind[t] = "X" /\ st[t] = "failed"

\* C10: unlock() is idempotent.  An unlock() call on a handle that has been
\* unlocked before changes nothing: no refCount, no entry of the registry
\* (also one created for the key since), no lock, no request.
UnlockIdempotent ==
  [][\A r \in Req :
       (st[r] = "unlocked" /\ unlock(r)) =>
         UNCHANGED <<nextReq, key, kind, st, ent, unlocked, inert,
                     mutexRefs, refCount, mutex>>]_vars

\* unlock() has been called again on an unlocked handle whose entry is gone,
\* and the key has a newer entry with one reference, held by a later request.
UnlockedAgainBesideNewEntry ==
  /\ again # 0
  /\ \E r \in Req :
       /\ SameKey(r, again) /\ again < r
       /\ ent[r] # ent[again]
       /\ mutexRefs[key[r]] = ent[r]
       /\ refCount[ent[r]] = 1
       /\ Holding(r)

\* The requests that refer to the entry of key k: pending, granted but not
\* yet delivered, or holding a live handle.
Referents(k) == {r \in OnKey(k) : Active(r)}

\* C12: a key has an entry in mutexRefs if and only if it has a live handle
\* or a pending request; an entry that is present has a refCount of at least
\* 1.  (As this holds in every state between calls, the entry goes in the
\* very call that drops the last reference.)
EntryIffReferenced ==
  \A k \in Keys :
    /\ mutexRefs[k] # NoEntry <=> Referents(k) # {}
    /\ mutexRefs[k] # NoEntry => refCount[mutexRefs[k]] >= 1

\* One key keeps its entry for a pending request behind a live handle while
\* another key, after a handle and a failed try, has no entry any more.
EntryKeptAndEntryDropped ==
  \E a, b, c, d \in Req :
    /\ SameKey(a, b) /\ st[a] = "live" /\ st[b] = "pending"
    /\ mutexRefs[key[a]] = ent[a]
    /\ SameKey(c, d) /\ key[c] # key[a]
    /\ st[c] = "unlocked" /\ st[d] = "failed"
    /\ mutexRefs[key[c]] = NoEntry

\* C14: round trip.  A call on a key that nobody refers to, used before or
\* not, is granted in the call itself and leaves the key with a new entry
\* whose refCount is 1 and whose lock is held by this request alone with an
\* empty queue, as a first use of the key does.
FirstUse(kd) ==
  [cnt |-> 1,
   mtx |-> [excl |-> kd = "X", shared |-> IF kd = "S" THEN 1 ELSE 0,
            queue |-> <<>>]]

RoundTrip ==
  [][\A k \in Keys : \A kd \in {"X", "S"} :
       (Calls(k, kd) /\ Referents(k) = {}) =>
         /\ st'[nextReq] \in {"granted", "live"}
         /\ mutexRefs'[k] = nextReq
         /\ ent'[nextReq] = nextReq
         /\ refCount'[nextReq] = FirstUse(kd).cnt
         /\ mutex'[nextReq] = FirstUse(kd).mtx]_vars

\* A key was held and fully released, its entry evicted, and a later
\* request holds it again on a new entry.
KeyAcquiredAgain ==
  \E a, b \in Req :
    /\ a < b /\ OnKey(key[a]) = {a, b} /\ key[a] # NoKey
    /\ st[a] = "unlocked" /\ Holding(b)
    /\ ent[b] = b /\ ent[a] = a
    /\ mutexRefs[key[b]] = b /\ refCount[b] = 1

\* C18: the refCount stored for a key equals the number of its live handles
\* plus the number of its requests that are pending or granted and not yet
\* delivered (0 standing for no entry).
StoredCount(k) ==
  IF mutexRefs[k] = NoEntry THEN 0 ELSE refCount[mutexRefs[k]]

RefCountIsReferences ==
  \A k \in Keys : StoredCount(k) = Cardinality(Referents(k))

\* A refCount of 3 made of one live handle, one request granted but not yet
\* delivered and one pending request, beside a failed try.
CountOfThreeKinds ==
  \E a, b, c, d \in Req :
    /\ OnKey(key[a]) = {a, b, c, d} /\ key[a] # NoKey
    /\ st[a] = "live" /\ st[b] = "granted" /\ st[c] = "pending"
    /\ st[d] = "failed"
    /\ StoredCount(key[a]) = 3

\* C19: one lock instance per key.  Every live handle and every pending
\* request of a key belongs to the entry that the registry holds for the key
\* now, and every request in a lock's queue was tracked on that lock's entry.
OneLockPerKey ==
  /\ \A r \in Req : Active(r) => ent[r] = mutexRefs[key[r]]
  /\ \A e \in Req : \A i \in 1..Len(mutex[e].queue) :
       ent[mutex[e].queue[i].req] = e

\* The last reference of a key was released and a later request holds the
\* key on a fresh entry, with a second request queued on that same entry.
FreshEntryShared ==
  \E a, b, c \in Req :
    /\ a < b /\ b < c
    /\ SameKey(a, b) /\ SameKey(a, c)
    /\ st[a] = "unlocked" /\ ent[a] # ent[b]
    /\ Holding(b) /\ st[c] = "pending"
    /\ ent[b] = mutexRefs[key[b]] /\ ent[c] = ent[b]

\* ------------------------------------------------------------- progress
\* The first unlock() of a live handle.
release_handle(r) == st[r] = "live" /\ unlock(r)

\* The calls of Next, no more than MaxWait requests being made.
LiveNext ==
  \/ \E k \in CallKeys : nextReq <= MaxWait /\ lock(k)
  \/ \E k \in CallKeys : nextReq <= MaxWait /\ tryLock(k)
  \/ \E k \in CallKeys : nextReq <= MaxWait /\ lockShared(k)
  \/ \E k \in CallKeys : nextReq <= MaxWait /\ tryLockShared(k)
  \/ \E r \in Req : trackLock(r)
  \/ \E r \in Req : unlock(r)

\* The resumption after `await` is a queued microtask and always runs; that
\* every granted handle is eventually unlocked is the caller's part.
LiveSpec ==
  /\ Init /\ [][LiveNext]_vars
  /\ \A r \in Req : WF_vars(trackLock(r))
  /\ \A r \in Req : WF_vars(release_handle(r))

\* C13: liveness.  If every granted handle is eventually unlocked, every
\* pending lock(k) and lockShared(k) is eventually granted.
EveryRequestGranted ==
  \A r \in Req : (st[r] = "pending") ~> Granted(r)

\* A reader that had to queue behind a writer, itself queued behind an
\* earlier reader, holds the lock after both have unlocked.
LateReaderServed ==
  \E s1, e, s2 \in Req :
    /\ s1 < e /\ e < s2
    /\ OnKey(key[e]) = {s1, e, s2} /\ key[e] # NoKey
    /\ ent[e] = ent[s1] /\ ent[s2] = ent[s1]
    /\ kind[s1] = "S" /\ kind[e] = "X" /\ kind[s2] = "S"
    /\ st[s1] = "unlocked" /\ st[e] = "unlocked" /\ Holding(s2)

\* ------------------------------------------------- reentrant acquisition
\* The task that holds handle r has asked for the same key again and waits
\* for that request before it unlocks.
WaitsForNested(r) ==
  st[r] = "live" /\ \E b \in Req : b > r /\ SameKey(b, r) /\ st[b] = "pending"

\* Every request on a key that is held is made by a task holding it, which
\* keeps its handle until the new request is granted.
ReentrantNext ==
  \/ \E k \in CallKeys : lock(k)
  \/ \E k \in CallKeys : tryLock(k)
  \/ \E k \in CallKeys : lockShared(k)
  \/ \E k \in CallKeys : tryLockShared(k)
  \/ \E r \in Req : trackLock(r)
  \/ \E r \in Req : ~WaitsForNested(r) /\ unlock(r)

ReentrantSpec == Init /\ [][ReentrantNext]_vars

\* C17: reentrant acquisition deadlocks and is not detected.  A lock(k) or
\* lockShared(k) made while an exclusive handle of k is held, and a lock(k)
\* made while a shared handle of k is held, is queued (not refused, no
\* error); when the holder keeps its handle until the new request is
\* granted, a queued request stays queued for ever.
ReentrantNeverGranted ==
  /\ [](\A a, b \in Req :
          (/\ a < b /\ SameKey(a, b) /\ Holding(a)
           /\ kind[a] = "X" \/ kind[b] = "X"
           /\ st[b] # "failed") => st[b] = "pending")
  /\ [][\A b \in Req : st[b] = "pending" => st'[b] = "pending"]_vars

\* On one key an exclusive holder waits for its own shared request, on the
\* other a shared holder waits for its own exclusive request.
BothReentrantDeadlocks ==
  \E a, b, c, d \in Req :
    /\ a < b /\ SameKey(a, b) /\ c < d /\ SameKey(c, d) /\ key[a] # key[c]
    /\ kind[a] = "X" /\ st[a] = "live" /\ kind[b] = "S" /\ st[b] = "pending"
    /\ kind[c] = "S" /\ st[c] = "live" /\ kind[d] = "X" /\ st[d] = "pending"

\* ======================================================== AsyncKeyedMutex
\* Two classes carry the name.  "own" (src/src/core/AsyncKeyedMutex.ts) keeps
\* its own mutexRefs over AsyncSharedMutex and wraps the task so that
\* subRef() runs when the task is over.  "wrap" (src/unnamed/part_001) takes
\* a handle from a KeyedMutex, runs the task and unlocks the handle.
\* AsyncSharedMutex (package async-shared-mutex) is the scoped acquisition of
\* the specification: acquire, run the work, release on every exit path.
\* A task may throw in the call that starts it (then the `finally` runs in
\* that same call), or end later by returning or by throwing.

\* ------------------------------------------------------------ own variant
\* track(key, task) of the "own" class, lines 30-43 and 61-63.
asyncTrack(reg, k, r) ==
  LET fresh == reg.refs[k] = NoEntry
      e == IF fresh THEN r ELSE reg.refs[k]
      c0 == IF fresh THEN 0 ELSE reg.cnt[e]
  IN [refs |-> [reg.refs EXCEPT ![k] = e],
      cnt |-> [reg.cnt EXCEPT ![e] = c0 + 1],
      mtx |-> IF fresh THEN [reg.mtx EXCEPT ![e] = IdleMutex] ELSE reg.mtx,
      e |-> e]

\* Mutant of subRef: the refCount test is missing, the key is always deleted.
asyncSubRefAlwaysDelete(reg, k, e) ==
  [reg EXCEPT !.refs[k] = NoEntry]

\* subRef() of the "own" class.
asyncSubRef(reg, k, e) ==
  IF reg.cnt[e] = 1
    THEN [reg EXCEPT !.refs[k] = NoEntry]
    ELSE [reg EXCEPT !.cnt[e] = reg.cnt[e] - 1]

\* Bookkeeping of a call on an AsyncKeyedMutex: request r, its status and,
\* when its task threw in the call itself, its outcome and result.
TaskMade(r, k, kd, status, e, out, res) ==
  /\ nextReq' = r + 1
  /\ key' = [key EXCEPT ![r] = k]
  /\ kind' = [kind EXCEPT ![r] = kd]
  /\ st' = [st EXCEPT ![r] = status]
  /\ ent' = [ent EXCEPT ![r] = e]
  /\ outcome' = [outcome EXCEPT ![r] = out]
  /\ result' = [result EXCEPT ![r] = res]
  /\ UNCHANGED <<unlocked, inert, again, variant>>

\* trackedTask is called with the lock held; thrown tells whether task()
\* throws in this call.  The `finally` of trackedTask then runs at once.
trackedTask(reg, k, e, thrown) ==
  IF thrown THEN asyncSubRef(reg, k, e) ELSE reg

\* lock(key, task) and lockShared(key, task) up to the grant of the mutex.
asyncLock(k) ==
  /\ variant = "own" /\ nextReq <= MaxTask
  /\ LET r == nextReq
         t == asyncTrack(Reg, k, r)
         a == acquireExclusive(t.mtx[t.e], r)
     IN /\ Store(Asked(t, a))
        /\ TaskMade(r, k, "X", IF a.ok THEN "granted" ELSE "pending", t.e,
                    "none", "none")

asyncLockShared(k) ==
  /\ variant = "own" /\ nextReq <= MaxTask
  /\ LET r == nextReq
         t == asyncTrack(Reg, k, r)
         a == acquireShared(t.mtx[t.e], r)
     IN /\ Store(Asked(t, a))
        /\ TaskMade(r, k, "S", IF a.ok THEN "granted" ELSE "pending", t.e,
                    "none", "none")

\* tryLock(key, task): null and subRef(), or the task is started at once.
asyncTryLock(k) ==
  /\ variant = "own" /\ nextReq <= MaxTask
  /\ LET r == nextReq
         t == asyncTrack(Reg, k, r)
         a == tryAcquireExclusive(t.mtx[t.e])
     IN IF a.ok
          THEN \E thrown \in BOOLEAN :
                 /\ Store(trackedTask(Asked(t, a), k, t.e, thrown))
                 /\ TaskMade(r, k, "X", IF thrown THEN "subbed" ELSE "running",
                             t.e, IF thrown THEN "error" ELSE "none", "none")
          ELSE /\ Store(asyncSubRef(Asked(t, a), k, t.e))
               /\ TaskMade(r, k, "X", "failed", t.e, "none", "none")

asyncTryLockShared(k) ==
  /\ variant = "own" /\ nextReq <= MaxTask
  /\ LET r == nextReq
         t == asyncTrack(Reg, k, r)
         a == tryAcquireShared(t.mtx[t.e])
     IN IF a.ok
          THEN \E thrown \in BOOLEAN :
                 /\ Store(trackedTask(Asked(t, a), k, t.e, thrown))
                 /\ TaskMade(r, k, "S", IF thrown THEN "subbed" ELSE "running",
                             t.e, IF thrown THEN "error" ELSE "none", "none")
          ELSE /\ Store(asyncSubRef(Asked(t, a), k, t.e))
               /\ TaskMade(r, k, "S", "failed", t.e, "none", "none")

\* The mutex has granted r: it calls trackedTask, which calls task().
trackedTaskStart(r) ==
  /\ variant = "own" /\ st[r] = "granted"
  /\ \E thrown \in BOOLEAN :
       /\ Store(trackedTask(Reg, key[r], ent[r], thrown))
       /\ st' = [st EXCEPT ![r] = IF thrown THEN "subbed" ELSE "running"]
       /\ outcome' = [outcome EXCEPT ![r] = IF thrown THEN "error" ELSE "none"]
  /\ UNCHANGED <<nextReq, key, kind, ent, unlocked, inert, again,
                 variant, result>>

\* The task body ends: its promise is fulfilled or rejected.
taskEnd(r) ==
  /\ variant \in {"own", "wrap"} /\ st[r] = "running"
  /\ \E out \in {"value", "error"} :
       outcome' = [outcome EXCEPT ![r] = out]
  /\ st' = [st EXCEPT ![r] = "ended"]
  /\ UNCHANGED <<nextReq, key, kind, ent, unlocked, inert, again,
                 mutexRefs, refCount, mutex, variant, result>>

\* Mutant of trackedTask: no `finally`, subRef() is called only when the
\* task has returned normally.
trackedTaskFinallyOnSuccess(r) ==
  /\ variant = "own" /\ st[r] = "ended"
  /\ Store(IF outcome[r] = "value" THEN asyncSubRef(Reg, key[r], ent[r])
                                   ELSE Reg)
  /\ st' = [st EXCEPT ![r] = "subbed"]
  /\ UNCHANGED <<nextReq, key, kind, ent, unlocked, inert, again, avars>>

\* trackedTask resumes after `await task()`: its `finally` calls subRef().
trackedTaskFinally(r) ==
  /\ variant = "own" /\ st[r] = "ended"
  /\ Store(asyncSubRef(Reg, key[r], ent[r]))
  /\ st' = [st EXCEPT ![r] = "subbed"]
  /\ UNCHANGED <<nextReq, key, kind, ent, unlocked, inert, again, avars>>

\* AsyncSharedMutex resumes after trackedTask has settled: it releases the
\* lock and settles the caller's promise with the task's outcome.
mutexUnlock(r) ==
  /\ variant = "own" /\ st[r] = "subbed"
  /\ LET rel == release(mutex[ent[r]], kind[r])
     IN /\ mutex' = [mutex EXCEPT ![ent[r]] = rel.m]
        /\ st' = [q \in Req |-> IF q = r THEN "done"
                                ELSE IF q \in rel.woken THEN "granted"
                                ELSE st[q]]
  /\ result' = [result EXCEPT ![r] = outcome[r]]
  /\ UNCHANGED <<nextReq, key, kind, ent, unlocked, inert, again,
                 mutexRefs, refCount, variant, outcome>>

\* ----------------------------------------------------------- wrap variant
\* handle.unlock() on a handle that was never unlocked, applied to the
\* registry: subCount(), then lock.unlock().
handleUnlock(reg, k, e, kd) ==
  LET reg1 == subRef(reg, k, e)
      rel == release(reg1.mtx[e], kd)
  IN [reg |-> [reg1 EXCEPT !.mtx[e] = rel.m], woken |-> rel.woken]

\* tryLock(key, task) and tryLockShared(key, task) of the "wrap" class:
\* keyedMutex.tryLock(key), then run(lck, task) in the same call.
wrapTry(k, kd, a, t) ==
  LET r == nextReq
  IN /\ nextReq' = r + 1
     /\ key' = [key EXCEPT ![r] = k]
     /\ kind' = [kind EXCEPT ![r] = kd]
     /\ ent' = [ent EXCEPT ![r] = t.e]
     /\ UNCHANGED <<again, variant>>
     /\ IF a.ok
          THEN \E thrown \in BOOLEAN :
                 IF thrown
                   THEN LET u == handleUnlock(Asked(t, a), k, t.e, kd)
                        IN /\ Store(u.reg)
                           /\ st' = [q \in Req |->
                                       IF q = r THEN "unlocked"
                                       ELSE IF q \in u.woken THEN "granted"
                                       ELSE st[q]]
                           /\ unlocked' = [unlocked EXCEPT ![r] = TRUE]
                           /\ inert' = [inert EXCEPT ![r] = TRUE]
                           /\ outcome' = [outcome EXCEPT ![r] = "error"]
                           /\ result' = [result EXCEPT ![r] = "error"]
                   ELSE /\ Store(Asked(t, a))
                        /\ st' = [st EXCEPT ![r] = "running"]
                        /\ UNCHANGED <<unlocked, inert, outcome, result>>
          ELSE /\ Store(subRef(Asked(t, a), k, t.e))
               /\ st' = [st EXCEPT ![r] = "failed"]
               /\ UNCHANGED <<unlocked, inert, outcome, result>>

wrapTryLock(k) ==
  /\ variant = "wrap" /\ nextReq <= MaxTask
  /\ LET t == track(Reg, k, nextReq)
     IN wrapTry(k, "X", tryAcquireExclusive(t.mtx[t.e]), t)

wrapTryLockShared(k) ==
  /\ variant = "wrap" /\ nextReq <= MaxTask
  /\ LET t == track(Reg, k, nextReq)
     IN wrapTry(k, "S", tryAcquireShared(t.mtx[t.e]), t)

\* lock()/lockShared() of the "wrap" class resume with the handle and call
\* run(lck, task), which calls task(); a throw there runs the `finally`.
runStart(r) ==
  /\ variant = "wrap" /\ st[r] = "live"
  /\ \E thrown \in BOOLEAN :
       IF thrown
         THEN /\ doUnlock(r)
              /\ outcome' = [outcome EXCEPT ![r] = "error"]
              /\ result' = [result EXCEPT ![r] = "error"]
         ELSE /\ st' = [st EXCEPT ![r] = "running"]
              /\ UNCHANGED <<unlocked, inert, mutexRefs, refCount, mutex,
                             outcome, result>>
  /\ UNCHANGED <<nextReq, key, kind, ent, again, variant>>

\* run resumes after `await task()`: its `finally` calls handle.unlock(),
\* and the promise of run settles as the task's did.
runFinally(r) ==
  /\ variant = "wrap" /\ st[r] = "ended"
  /\ doUnlock(r)
  /\ result' = [result EXCEPT ![r] = outcome[r]]
  /\ UNCHANGED <<nextReq, key, kind, ent, again, variant, outcome>>

\* ---------------------------------------------------------- specification
AsyncInit ==
  /\ nextReq = 1
  /\ key = [r \in Req |-> NoKey]
  /\ kind = [r \in Req |-> "none"]
  /\ st = [r \in Req |-> "new"]
  /\ ent = [r \in Req |-> NoEntry]
  /\ unlocked = [r \in Req |-> FALSE]
  /\ inert = [r \in Req |-> FALSE]
  /\ again = 0
  /\ mutexRefs = [k \in Keys |-> NoEntry]
  /\ refCount = [e \in Req |-> 0]
  /\ mutex = [e \in Req |-> IdleMutex]
  /\ variant \in {"own", "wrap"}
  /\ outcome = [r \in Req |-> "none"]
  /\ result = [r \in Req |-> "none"]

AsyncNext ==
  \/ \E k \in CallKeys : asyncLock(k)
  \/ \E k \in CallKeys : asyncTryLock(k)
  \/ \E k \in CallKeys : asyncLockShared(k)
  \/ \E k \in CallKeys : asyncTryLockShared(k)
  \/ \E r \in Req : trackedTaskStart(r)
  \/ \E r \in Req : trackedTaskFinally(r)
  \/ \E r \in Req : mutexUnlock(r)
  \/ \E r \in Req : taskEnd(r)
  \/ \E k \in CallKeys : variant = "wrap" /\ nextReq <= MaxTask /\ lock(k)
  \/ \E k \in CallKeys : variant = "wrap" /\ nextReq <= MaxTask /\ lockShared(k)
  \/ \E k \in CallKeys : wrapTryLock(k)
  \/ \E k \in CallKeys : wrapTryLockShared(k)
  \/ \E r \in Req : variant = "wrap" /\ trackLock(r)
  \/ \E r \in Req : runStart(r)
  \/ \E r \in Req : runFinally(r)

AsyncSpec == AsyncInit /\ [][AsyncNext]_vars

\* ------------------------------------------------- claims, AsyncKeyedMutex
\* The underlying lock of r's entry is held by r (own variant): from the
\* grant until AsyncSharedMutex releases it.
HoldsLock(r) == st[r] \in {"granted", "running", "ended", "subbed"}

\* C20: the AsyncKeyedMutex with its own mutexRefs never removes a key's
\* entry while a task for that key still holds the underlying lock: as long
\* as a request holds the lock of its entry, the map still holds that entry
\* for its key, so no request for the key can get a fresh mutex meanwhile.
EntryKeptWhileHeld ==
  variant = "own" =>
    \A r \in Req : HoldsLock(r) => mutexRefs[key[r]] = ent[r]

\* A second request holds a fresh mutex for a key whose old mutex is held.
FreshMutexWhileOldHeld ==
  /\ variant = "own"
  /\ \E a, b \in Req : /\ a < b /\ SameKey(a, b) /\ ent[a] # ent[b]
                       /\ st[a] = "subbed" /\ outcome[a] = "value"
                       /\ kind[a] = "X" /\ mutex[ent[a]].excl
                       /\ st[b] = "running" /\ mutex[ent[b]].excl

\* The body of r's task is executing / is over.
BodyRunning(r) == st[r] = "running"
BodyOver(r) == st[r] \in {"ended", "subbed", "done", "unlocked"}

\* C16: AsyncKeyedMutex runs the exclusive tasks of one key one at a time
\* and in request order: while the body of an exclusive task runs, no other
\* body for the same key runs, and of two exclusive requests A then B for a
\* key, B's body has not started unless A's body is over.
ExclusiveTasksSequential ==
  /\ \A a, b \in Req :
       (a # b /\ SameKey(a, b) /\ kind[a] = "X" /\ BodyRunning(a))
         => ~BodyRunning(b)
  /\ \A a, b \in Req :
       (a < b /\ SameKey(a, b) /\ kind[a] = "X" /\ kind[b] = "X"
          /\ st[a] # "failed" /\ (BodyRunning(b) \/ BodyOver(b)))
         => BodyOver(a)

\* A's entry is evicted and its lock not yet released; B runs under the
\* key's next entry with C queued behind it.
TaskRunsBesideEvictedEntry ==
  /\ variant = "own"
  /\ \E a, b, c \in Req :
       /\ a < b /\ b < c /\ SameKey(a, b) /\ SameKey(b, c)
       /\ kind[a] = "X" /\ kind[b] = "X" /\ kind[c] = "X"
       /\ st[a] = "subbed" /\ ent[b] # ent[a]
       /\ BodyRunning(b) /\ st[c] = "pending"

\* r's promise has settled: the lock is released and the caller has the
\* result ("done" in the own variant, "unlocked" in the wrap variant).
Settled(r) == st[r] \in {"done", "unlocked"}
\* r is counted in the refCount of its entry.
Counted(r) ==
  st[r] \in {"pending", "granted", "live", "running", "ended"}
\* r holds the lock of its entry.
LockHeldBy(r) ==
  st[r] \in {"granted", "live", "running", "ended", "subbed"}
OnEntry(e) == {q \in Req : ent[q] = e}

\* The lock of entry e is held by exactly the requests that hold it, and
\* nothing waits on it while nobody holds it.
LockAccounted(e) ==
  /\ mutex[e].excl = (\E q \in OnEntry(e) : kind[q] = "X" /\ LockHeldBy(q))
  /\ mutex[e].shared =
       Cardinality({q \in OnEntry(e) : kind[q] = "S" /\ LockHeldBy(q)})
  /\ mutex[e].queue # <<>> => (mutex[e].excl \/ mutex[e].shared > 0)

\* The map holds an entry for k exactly while requests are counted on k,
\* and its refCount is their number.
RefAccounted(k) ==
  LET refs == {q \in OnKey(k) : Counted(q)}
  IN /\ (mutexRefs[k] = NoEntry) = (refs = {})
     /\ mutexRefs[k] # NoEntry =>
          /\ refCount[mutexRefs[k]] = Cardinality(refs)
          /\ \A q \in refs : ent[q] = mutexRefs[k]

\* C15: AsyncKeyedMutex releases on failure.  Once the promise of a request
\* whose task threw or rejected has settled, the caller has that error, the
\* request holds its lock no longer (the lock is held by its other holders
\* only and no queued request is left waiting on a free lock), and its
\* reference is dropped (the key's entry is evicted if none is left).
FailureReleases ==
  \A r \in Req :
    (outcome[r] = "error" /\ Settled(r)) =>
      /\ result[r] = "error"
      /\ LockAccounted(ent[r])
      /\ RefAccounted(key[r])

\* A failed exclusive task has settled with its error; the request queued
\* behind it runs, and another failed task was its key's last reference.
FailedTaskHandsOver ==
  \E a, b, c \in Req :
    /\ a < b /\ ent[a] = ent[b] /\ kind[a] = "X" /\ kind[b] = "X"
    /\ outcome[a] = "error" /\ Settled(a) /\ result[a] = "error"
    /\ BodyRunning(b)
    /\ outcome[c] = "error" /\ Settled(c) /\ mutexRefs[key[c]] = NoEntry

\* ------------------------------------------ all three classes, MaxTask calls
AllInit ==
  /\ nextReq = 1
  /\ key = [r \in Req |-> NoKey]
  /\ kind = [r \in Req |-> "none"]
  /\ st = [r \in Req |-> "new"]
  /\ ent = [r \in Req |-> NoEntry]
  /\ unlocked = [r \in Req |-> FALSE]
  /\ inert = [r \in Req |-> FALSE]
  /\ again = 0
  /\ mutexRefs = [k \in Keys |-> NoEntry]
  /\ refCount = [e \in Req |-> 0]
  /\ mutex = [e \in Req |-> IdleMutex]
  /\ variant \in {"keyed", "own", "wrap"}
  /\ outcome = [r \in Req |-> "none"]
  /\ result = [r \in Req |-> "none"]

AllNext ==
  \/ \E k \in CallKeys : variant = "keyed" /\ nextReq <= MaxTask /\ lock(k)
  \/ \E k \in CallKeys : variant = "keyed" /\ nextReq <= MaxTask /\ tryLock(k)
  \/ \E k \in CallKeys : variant = "keyed" /\ nextReq <= MaxTask /\ lockShared(k)
  \/ \E k \in CallKeys :
       variant = "keyed" /\ nextReq <= MaxTask /\ tryLockShared(k)
  \/ \E r \in Req : variant = "keyed" /\ trackLock(r)
  \/ \E r \in Req : variant = "keyed" /\ unlock(r)
  \/ \E k \in CallKeys : asyncLock(k)
  \/ \E k \in CallKeys : asyncTryLock(k)
  \/ \E k \in CallKeys : asyncLockShared(k)
  \/ \E k \in CallKeys : asyncTryLockShared(k)
  \/ \E r \in Req : trackedTaskStart(r)
  \/ \E r \in Req : trackedTaskFinally(r)
  \/ \E r \in Req : mutexUnlock(r)
  \/ \E r \in Req : taskEnd(r)
  \/ \E k \in CallKeys : variant = "wrap" /\ nextReq <= MaxTask /\ lock(k)
  \/ \E k \in CallKeys : variant = "wrap" /\ nextReq <= MaxTask /\ lockShared(k)
  \/ \E k \in CallKeys : wrapTryLock(k)
  \/ \E k \in CallKeys : wrapTryLockShared(k)
  \/ \E r \in Req : variant = "wrap" /\ trackLock(r)
  \/ \E r \in Req : runStart(r)
  \/ \E r \in Req : runFinally(r)

AllSpec == AllInit /\ [][AllNext]_vars

\* r is at rest: never made, refused, unlocked by its holder, or its task's
\* promise has settled.
AtRest(r) == st[r] \in {"new", "failed", "unlocked", "done"}

\* C11: no key leak.  In any state where every granted handle has been
\* unlocked, every task's promise has settled and no request is pending or
\* granted and undelivered, the registry map holds no key; for KeyedMutex
\* and both AsyncKeyedMutex classes, failed try-variants included.
NoKeyLeak ==
  (\A r \in Req : AtRest(r)) => \A k \in Keys : mutexRefs[k] = NoEntry

\* Two keys were used, a try-variant failed, a lock was acquired and
\* released, and everything is at rest again.
AllAtRestAfterFailedTry ==
  /\ nextReq > 3
  /\ \A r \in Req : AtRest(r)
  /\ \E a, b \in Req : key[a] # NoKey /\ key[b] # NoKey /\ key[a] # key[b]
  /\ \E a, b \in Req : /\ a < b /\ SameKey(a, b) /\ st[b] = "failed"
                       /\ st[a] \in {"unlocked", "done"}

\* ------------------------------------------------ claims on the hand-over
\* The requests that hold the lock of entry e: granted, not yet unlocked.
HoldersOf(e) == {r \in Req : ent[r] = e /\ Holding(r)}

\* C21: no lost wakeup.  In no state is a queue non-empty while no request
\* holds its lock (a holder is a request the lock was granted to and that
\* has not unlocked).  The unlock() of an exclusive handle, or of the last
\* shared handle, grants the head of the queue within that step, and the
\* key's entry is in the registry when a promoted request gets its handle.
NoLostWakeup ==
  /\ [](\A e \in Req : mutex[e].queue # <<>> => HoldersOf(e) # {})
  /\ [][\A r \in Req :
          /\ (st[r] = "live" /\ st'[r] = "unlocked"
                /\ HoldersOf(ent[r]) = {r} /\ mutex[ent[r]].queue # <<>>)
               => /\ st'[Head(mutex[ent[r]].queue).req] = "granted"
                  /\ mutexRefs'[key[r]] = ent[r]
          /\ (st[r] = "granted" /\ st'[r] = "live")
               => /\ mutexRefs[key[r]] = ent[r]
                  /\ mutexRefs'[key[r]] = ent[r]]_vars

\* An exclusive handle was unlocked with two requests queued: the first of
\* them has its handle, under the entry the registry still holds, and the
\* second still waits behind it.
PromotedHeadHoldsEntry ==
  \E a, b, c \in Req :
    /\ a < b /\ b < c /\ OnKey(key[a]) = {a, b, c} /\ key[a] # NoKey
    /\ ent[b] = ent[a] /\ ent[c] = ent[a]
    /\ kind[a] = "X" /\ st[a] = "unlocked"
    /\ kind[b] = "X" /\ st[b] = "live" /\ mutexRefs[key[b]] = ent[b]
    /\ st[c] = "pending"

\* C22: the grant is in effect before delivery.  While a request is granted
\* and its lock()/lockShared() promise has not yet delivered the handle, the
\* key's entry is in the registry with the request counted, the lock is held
\* for it, and no tryLock on the key succeeds (no tryLockShared either when
\* the granted request is exclusive).
GrantInEffectBeforeDelivery ==
  /\ [](\A r \in Req :
          st[r] = "granted" =>
            /\ mutexRefs[key[r]] = ent[r]
            /\ refCount[ent[r]] = Cardinality(Referents(key[r]))
            /\ IF kind[r] = "X"
                 THEN mutex[ent[r]].excl /\ mutex[ent[r]].shared = 0
                      /\ HoldersOf(ent[r]) = {r}
                 ELSE ~mutex[ent[r]].excl
                      /\ mutex[ent[r]].shared = Cardinality(HoldersOf(ent[r])))
  /\ [][\A r \in Req :
          st[r] = "granted" =>
            /\ Calls(key[r], "X") => st'[nextReq] # "live"
            /\ (kind[r] = "X" /\ Calls(key[r], "S")) => st'[nextReq] # "live"
       ]_vars

\* The first request of a key was granted at once and has not received its
\* handle; an exclusive and a shared try made since have both failed.
TriesRefusedByUndeliveredGrant ==
  \E a, b, c \in Req :
    /\ a < b /\ b < c /\ OnKey(key[a]) = {a, b, c} /\ key[a] # NoKey
    /\ kind[a] = "X" /\ st[a] = "granted"
    /\ kind[b] = "X" /\ st[b] = "failed"
    /\ kind[c] = "S" /\ st[c] = "failed"

\* ------------------------------------------- claims on the decrement closure
\* Entry e is the entry of some key in the map.
InMap(e) == \E k \in Keys : mutexRefs[k] = e

\* C23: the decrement closure of a request acts only on the entry that the
\* request incremented.  A closure runs only while its entry is the one the
\* map holds for its key; an entry in the map is decremented or deleted only
\* by the closure of a request counted on it; and the count of an entry that
\* is out of the map is never decremented.
NoStaleClosure ==
  [][/\ \A r \in Req :
          (Counted(r) /\ ~Counted(r)') => mutexRefs[key[r]] = ent[r]
     /\ \A k \in Keys :
          LET e == mutexRefs[k]
          IN (e # NoEntry /\ (mutexRefs'[k] # e \/ refCount'[e] < refCount[e]))
               => \E r \in Req : /\ ent[r] = e /\ key[r] = k
                                 /\ Counted(r) /\ ~Counted(r)'
     /\ \A e \in Req : ~InMap(e) => refCount'[e] >= refCount[e]]_vars

\* The entry of a key was evicted when its only request gave its count
\* back; the key has a newer entry, counted once by a later request, on
\* which a failed try has taken and given back a count since.
NewerEntryBesideSpentClosure ==
  \E a, b, c \in Req :
    /\ a < b /\ b < c /\ OnKey(key[a]) = {a, b, c} /\ key[a] # NoKey
    /\ st[a] \in {"unlocked", "subbed", "done"} /\ ent[a] # ent[b]
    /\ Counted(b) /\ mutexRefs[key[b]] = ent[b] /\ refCount[ent[b]] = 1
    /\ st[c] = "failed" /\ ent[c] = ent[b]

\* ------------------------------------------------- claims on the try-variants
\* What lock(k) (kd = "X") or lockShared(k) (kd = "S") makes of the current
\* state up to its await: whether the lock is granted without waiting, the
\* entry used and the registry left.
LockAtOnce(k, kd) ==
  LET r == nextReq
      t == track(Reg, k, r)
      a == IF kd = "X" THEN acquireExclusive(t.mtx[t.e], r)
                       ELSE acquireShared(t.mtx[t.e], r)
  IN [ok |-> a.ok, e |-> t.e, reg |-> Asked(t, a)]

\* C24: a successful tryLock(k) leaves the registry and the lock of k as a
\* lock(k) granted without waiting leaves them from the same state, and a
\* successful tryLockShared(k) as a lockShared(k) granted without waiting:
\* same entry, same refCount, same holder state, same queue.
SuccessfulTryAsLock ==
  [][\A k \in Keys : \A kd \in {"X", "S"} :
       (Calls(k, kd) /\ st'[nextReq] = "live") =>
         LET l == LockAtOnce(k, kd)
         IN /\ l.ok
            /\ ent'[nextReq] = l.e
            /\ mutexRefs' = l.reg.refs
            /\ refCount' = l.reg.cnt
            /\ mutex' = l.reg.mtx]_vars

\* Three requests were made and all hold handles: an exclusive one on a
\* fresh entry of one key, and two shared ones on one entry of another key,
\* the later of which found the entry in use and joined it.
HandlesTakenAtOnce ==
  /\ nextReq = 4
  /\ \E x, s1, s2 \in 1..3 :
       /\ s1 < s2 /\ SameKey(s1, s2) /\ key[x] # key[s1] /\ key[x] # NoKey
       /\ kind[x] = "X" /\ st[x] = "live" /\ mutex[ent[x]].excl
       /\ refCount[ent[x]] = 1
       /\ kind[s1] = "S" /\ kind[s2] = "S" /\ st[s1] = "live" /\ st[s2] = "live"
       /\ ent[s2] = ent[s1] /\ refCount[ent[s1]] = 2
       /\ mutex[ent[s1]].shared = 2 /\ mutex[ent[s1]].queue = <<>>
====
